---- MODULE Spec2Model ----
(***************************************************************************)
(* Population quiz backend: wiki_parser.py (row extraction, guess          *)
(* normalisation and matching) and app.py (startup cache, /countries and   *)
(* /check handlers).                                                       *)
(*                                                                         *)
(* A Python str is a sequence of one-character strings.  A wikitext        *)
(* document is a sequence of lexical tokens: the row separator "|-", the   *)
(* "{{flagicon|" template opening, a piped link "[[target|display]]", a    *)
(* population template opening "{{n+p|digits|" and any other text.         *)
(* Python's None and an absent value are the empty tuple, a present value  *)
(* x is <<x>>.                                                             *)
(***************************************************************************)
EXTENDS Integers, Sequences, FiniteSets, TLC

VARIABLES
    phase,            \* "boot" before the module body of app.py ran, then "serving"
    bound,            \* the module-level names of app.py that are bound
    wikitext,         \* _wikitext, the fetched document
    top_n,            \* the top_n argument of the two parse functions
    top_countries,    \* the cached (or returned) list of names
    top_populations,  \* the cached (or returned) list of formatted figures
    warnings,         \* the parse functions that printed their WARNING
    request,          \* the HTTP request being answered
    response,         \* the answer to it
    guess,            \* the argument of normalise_guess / check_guess
    result,           \* the dict check_guess returned
    normalised,       \* normalise_guess(guess)
    renormalised      \* normalise_guess(normalise_guess(guess))

vars ==
    <<phase, bound, wikitext, top_n, top_countries, top_populations, warnings,
      request, response, guess, result, normalised, renormalised>>

None ==
    <<>>

Some(x) ==
    <<x>>

----------------------------------------------------------------------------
(* Bounds of the model.                                                    *)

MaxRows ==
    2

MaxN ==
    2

MaxGuessLen ==
    3

MaxNames ==
    2

----------------------------------------------------------------------------
(* Python str methods used by the parser.                                  *)

UpperLetters ==
    <<"A","B","C","D","E","F","G","H","I","J","K","L","M","N","O","P","Q","R","S","T","U","V","W","X","Y","Z">>

LowerLetters ==
    <<"a","b","c","d","e","f","g","h","i","j","k","l","m","n","o","p","q","r","s","t","u","v","w","x","y","z">>

\* The three forms of the Greek letter sigma: U+03A3, U+03C3, U+03C2.
CapitalSigma ==
    "GREEK CAPITAL LETTER SIGMA"

SmallSigma ==
    "GREEK SMALL LETTER SIGMA"

FinalSigma ==
    "GREEK SMALL LETTER FINAL SIGMA"

Whitespace ==
    {" ", "\t", "\n", "\r"}

\* Characters str.lower() looks through when it decides the form of a sigma.
CaseIgnorable ==
    {"'", "."}

Range(f) ==
    {f[i] : i \in DOMAIN f}

IsCased(c) ==
    \/ c \in Range(UpperLetters)
    \/ c \in Range(LowerLetters)
    \/ c \in {CapitalSigma, SmallSigma, FinalSigma}

\* The case mapping of one character, context-free.
CharLower(c) ==
    IF c \in Range(UpperLetters)
    THEN LowerLetters[CHOOSE i \in DOMAIN UpperLetters : UpperLetters[i] = c]
    ELSE IF c = CapitalSigma THEN SmallSigma ELSE c

\* str.lower() maps a capital sigma to the final form when a cased letter
\* precedes it and none follows it (case-ignorable characters skipped).
RECURSIVE PrevSignificant(_, _)
PrevSignificant(s, i) ==
    IF i = 0 THEN 0
    ELSE IF s[i] \in CaseIgnorable THEN PrevSignificant(s, i - 1) ELSE i

RECURSIVE NextSignificant(_, _)
NextSignificant(s, i) ==
    IF i > Len(s) THEN 0
    ELSE IF s[i] \in CaseIgnorable THEN NextSignificant(s, i + 1) ELSE i

IsFinalSigma(s, i) ==
    LET p == PrevSignificant(s, i - 1)
        n == NextSignificant(s, i + 1)
    IN  /\ p > 0
        /\ IsCased(s[p])
        /\ (n = 0 \/ ~IsCased(s[n]))

lower(s) ==
    [i \in 1..Len(s) |->
        IF s[i] = CapitalSigma
        THEN IF IsFinalSigma(s, i) THEN FinalSigma ELSE SmallSigma
        ELSE CharLower(s[i])]

strip(s) ==
    LET kept == {i \in 1..Len(s) : s[i] \notin Whitespace}
    IN  IF kept = {} THEN <<>>
        ELSE SubSeq(s, CHOOSE i \in kept : \A j \in kept : i <= j,
                       CHOOSE i \in kept : \A j \in kept : j <= i)

----------------------------------------------------------------------------
(* The alias table.                                                        *)

s_america ==
    <<"a","m","e","r","i","c","a">>

s_britain ==
    <<"b","r","i","t","a","i","n">>

s_burma ==
    <<"b","u","r","m","a">>

s_china ==
    <<"c","h","i","n","a">>

s_congo ==
    <<"c","o","n","g","o">>

s_democratic_republic_of_the_congo ==
    <<"d","e","m","o","c","r","a","t","i","c"," ","r","e","p","u","b","l","i","c"," ","o","f"," ","t","h","e"," ","c","o","n","g","o">>

s_dprk ==
    <<"d","p","r","k">>

s_dr_congo ==
    <<"d","r"," ","c","o","n","g","o">>

s_drc ==
    <<"d","r","c">>

s_england ==
    <<"e","n","g","l","a","n","d">>

s_great_britain ==
    <<"g","r","e","a","t"," ","b","r","i","t","a","i","n">>

s_iran ==
    <<"i","r","a","n">>

s_myanmar ==
    <<"m","y","a","n","m","a","r">>

s_north_korea ==
    <<"n","o","r","t","h"," ","k","o","r","e","a">>

s_persia ==
    <<"p","e","r","s","i","a">>

s_prc ==
    <<"p","r","c">>

s_republic_of_the_congo ==
    <<"r","e","p","u","b","l","i","c"," ","o","f"," ","t","h","e"," ","c","o","n","g","o">>

s_uk ==
    <<"u","k">>

s_united_kingdom ==
    <<"u","n","i","t","e","d"," ","k","i","n","g","d","o","m">>

s_united_states ==
    <<"u","n","i","t","e","d"," ","s","t","a","t","e","s">>

s_united_states_of_america ==
    <<"u","n","i","t","e","d"," ","s","t","a","t","e","s"," ","o","f"," ","a","m","e","r","i","c","a">>

s_us ==
    <<"u","s">>

s_usa ==
    <<"u","s","a">>

\* The table with one alias pointing at another alias.
ALIASES_chained ==
       (s_usa :> s_united_states)
    @@ (s_us :> s_usa)
    @@ (s_america :> s_united_states)
    @@ (s_united_states_of_america :> s_united_states)
    @@ (s_dr_congo :> s_democratic_republic_of_the_congo)
    @@ (s_drc :> s_democratic_republic_of_the_congo)
    @@ (s_congo :> s_democratic_republic_of_the_congo)
    @@ (s_republic_of_the_congo :> s_democratic_republic_of_the_congo)
    @@ (s_uk :> s_united_kingdom)
    @@ (s_britain :> s_united_kingdom)
    @@ (s_great_britain :> s_united_kingdom)
    @@ (s_england :> s_united_kingdom)
    @@ (s_persia :> s_iran)
    @@ (s_burma :> s_myanmar)
    @@ (s_dprk :> s_north_korea)
    @@ (s_prc :> s_china)

ALIASES ==
       (s_usa :> s_united_states)
    @@ (s_us :> s_united_states)
    @@ (s_america :> s_united_states)
    @@ (s_united_states_of_america :> s_united_states)
    @@ (s_dr_congo :> s_democratic_republic_of_the_congo)
    @@ (s_drc :> s_democratic_republic_of_the_congo)
    @@ (s_congo :> s_democratic_republic_of_the_congo)
    @@ (s_republic_of_the_congo :> s_democratic_republic_of_the_congo)
    @@ (s_uk :> s_united_kingdom)
    @@ (s_britain :> s_united_kingdom)
    @@ (s_great_britain :> s_united_kingdom)
    @@ (s_england :> s_united_kingdom)
    @@ (s_persia :> s_iran)
    @@ (s_burma :> s_myanmar)
    @@ (s_dprk :> s_north_korea)
    @@ (s_prc :> s_china)

----------------------------------------------------------------------------
(* Guess normalisation and matching.                                       *)

normalise_guess(g) ==
    LET cleaned == lower(strip(g))
    IN  IF cleaned \in DOMAIN ALIASES THEN ALIASES[cleaned] ELSE cleaned

\* x in xs
list_contains(xs, x) ==
    \E i \in 1..Len(xs) : xs[i] = x

\* xs.index(x), 0-based, scanning from the left; called only when x in xs.
RECURSIVE list_index_from(_, _, _)
list_index_from(xs, x, i) ==
    IF xs[i + 1] = x THEN i ELSE list_index_from(xs, x, i + 1)

\* The position of the last occurrence instead of the first.
RECURSIVE list_index_last_from(_, _, _)
list_index_last_from(xs, x, i) ==
    IF xs[i + 1] = x THEN i ELSE list_index_last_from(xs, x, i - 1)

list_index_last(xs, x) ==
    list_index_last_from(xs, x, Len(xs) - 1)

list_index(xs, x) ==
    list_index_from(xs, x, 0)

\* A wrong guess reported with rank 0 instead of None.
check_guess_rank_zero(g, countries) ==
    LET n == normalise_guess(g)
    IN  IF list_contains(countries, n)
        THEN [correct |-> TRUE, rank |-> Some(list_index(countries, n) + 1),
              normalised |-> n]
        ELSE [correct |-> FALSE, rank |-> Some(0), normalised |-> n]

check_guess(g, countries) ==
    LET n == normalise_guess(g)
    IN  IF list_contains(countries, n)
        THEN [correct |-> TRUE, rank |-> Some(list_index(countries, n) + 1),
              normalised |-> n]
        ELSE [correct |-> FALSE, rank |-> None, normalised |-> n]

----------------------------------------------------------------------------
(* Row extraction.                                                         *)

TOP_N ==
    20

RowSep ==
    [kind |-> "|-", arg |-> <<>>]

Flagicon ==
    [kind |-> "{{flagicon|", arg |-> <<>>]

Link(display) ==
    [kind |-> "[[target|display]]", arg |-> display]

NP(digits) ==
    [kind |-> "{{n+p|digits|", arg |-> digits]

Text ==
    [kind |-> "text", arg |-> <<>>]

\* wikitext.split("|-"): k separators give k + 1 fragments.
RECURSIVE split_from(_, _, _)
split_from(text, i, current) ==
    IF i > Len(text) THEN <<current>>
    ELSE IF text[i] = RowSep
         THEN <<current>> \o split_from(text, i + 1, <<>>)
         ELSE split_from(text, i + 1, Append(current, text[i]))

split(text) ==
    split_from(text, 1, <<>>)

\* flagicon_pattern.search(row)
flagicon_search(row) ==
    \E i \in 1..Len(row) : row[i].kind = Flagicon.kind

IsLink(tok) ==
    tok.kind = "[[target|display]]"

IsNP(tok) ==
    tok.kind = "{{n+p|digits|"

\* link_pattern.findall(row): the display names, left to right.
link_findall(row) ==
    LET links == SelectSeq(row, IsLink)
    IN  [i \in 1..Len(links) |-> links[i].arg]

\* population_pattern.search(row): group(1) of the leftmost match, or None.
population_search(row) ==
    LET nps == SelectSeq(row, IsNP)
    IN  IF nps = <<>> THEN None ELSE Some(nps[1].arg)

Digits ==
    <<"0","1","2","3","4","5","6","7","8","9">>

DigitValue(c) ==
    (CHOOSE i \in DOMAIN Digits : Digits[i] = c) - 1

\* int(s) of a string of decimal digits.
RECURSIVE int(_)
int(s) ==
    IF s = <<>> THEN 0
    ELSE 10 * int(SubSeq(s, 1, Len(s) - 1)) + DigitValue(s[Len(s)])

\* str(n) of a natural number.
RECURSIVE str(_)
str(n) ==
    IF n < 10 THEN <<Digits[n + 1]>>
    ELSE Append(str(n \div 10), Digits[(n % 10) + 1])

ThreeDigits(n) ==
    <<Digits[(n \div 100) + 1], Digits[((n \div 10) % 10) + 1], Digits[(n % 10) + 1]>>

\* f"{n:,}": groups of three digits from the right, separated by commas.
RECURSIVE format_commas(_)
format_commas(n) ==
    IF n < 1000 THEN str(n)
    ELSE format_commas(n \div 1000) \o <<",">> \o ThreeDigits(n % 1000)

\* The loop with the cap tested by > instead of >=.
RECURSIVE countries_loop_off_by_one(_, _, _, _)
countries_loop_off_by_one(rows, i, countries, n) ==
    IF i > Len(rows) \/ Len(countries) > n THEN countries
    ELSE IF ~flagicon_search(rows[i])
         THEN countries_loop_off_by_one(rows, i + 1, countries, n)
    ELSE LET matches == link_findall(rows[i])
         IN  IF matches = <<>> THEN countries_loop_off_by_one(rows, i + 1, countries, n)
             ELSE countries_loop_off_by_one(rows, i + 1,
                      Append(countries,
                             [row |-> i, value |-> lower(strip(matches[1]))]), n)

\* The for loop of parse_top_countries from row i on.  An entry of the list
\* carries, next to the name, the index of the row fragment it was captured
\* from.
RECURSIVE countries_loop(_, _, _, _)
countries_loop(rows, i, countries, n) ==
    IF i > Len(rows) \/ Len(countries) >= n THEN countries
    ELSE IF ~flagicon_search(rows[i]) THEN countries_loop(rows, i + 1, countries, n)
    ELSE LET matches == link_findall(rows[i])
         IN  IF matches = <<>> THEN countries_loop(rows, i + 1, countries, n)
             ELSE countries_loop(rows, i + 1,
                      Append(countries,
                             [row |-> i, value |-> lower(strip(matches[1]))]), n)

countries_scan(text, n) ==
    countries_loop(split(text), 1, <<>>, n)

parse_top_countries(text, n) ==
    LET entries == countries_scan(text, n)
    IN  [i \in 1..Len(entries) |-> entries[i].value]

\* The for loop of parse_top_populations from row i on.
RECURSIVE populations_loop(_, _, _, _)
populations_loop(rows, i, populations, n) ==
    IF i > Len(rows) \/ Len(populations) >= n THEN populations
    ELSE IF ~flagicon_search(rows[i]) THEN populations_loop(rows, i + 1, populations, n)
    ELSE LET pop_match == population_search(rows[i])
         IN  IF pop_match = None THEN populations_loop(rows, i + 1, populations, n)
             ELSE populations_loop(rows, i + 1,
                      Append(populations,
                             [row |-> i, value |-> format_commas(int(pop_match[1]))]), n)

populations_scan(text, n) ==
    populations_loop(split(text), 1, <<>>, n)

parse_top_populations(text, n) ==
    LET entries == populations_scan(text, n)
    IN  [i \in 1..Len(entries) |-> entries[i].value]

\* The WARNING either function prints when it found fewer than n entries.
short_list_warning(list, n) ==
    Len(list) < n

----------------------------------------------------------------------------
(* Inputs.                                                                 *)

SeqsUpTo(S, n) ==
    UNION {[1..k -> S] : k \in 0..n}

RECURSIVE Join(_)
Join(rows) ==
    IF rows = <<>> THEN <<>>
    ELSE IF Len(rows) = 1 THEN rows[1]
    ELSE rows[1] \o <<RowSep>> \o Join(Tail(rows))

d_China ==
    <<"C","h","i","n","a">>

d_United_States ==
    <<" ","U","n","i","t","e","d"," ","S","t","a","t","e","s">>

n_1409670000 ==
    <<"1","4","0","9","6","7","0","0","0","0">>

n_341784857 ==
    <<"3","4","1","7","8","4","8","5","7">>

FlagOptions ==
    {<<>>, <<Flagicon>>}

LinkOptions ==
    {<<>>, <<Link(d_China)>>, <<Link(d_United_States), Link(d_China)>>}

NPOptions ==
    {<<>>, <<NP(n_1409670000)>>, <<NP(n_341784857)>>}

\* A row fragment: leading cell text, then optionally the flag template, the
\* piped links and the population template.
RowFragments ==
    {<<Text>> \o f \o l \o p : f \in FlagOptions, l \in LinkOptions, p \in NPOptions}

Documents ==
    {Join(rows) : rows \in SeqsUpTo(RowFragments, MaxRows)}

GuessChars ==
    {"u", "U", "s", " ", CapitalSigma, SmallSigma}

Guesses ==
    SeqsUpTo(GuessChars, MaxGuessLen)

s_u_final_sigma ==
    <<"u", FinalSigma>>

NameOptions ==
    {s_united_states, s_us, s_u_final_sigma}

NameLists ==
    SeqsUpTo(NameOptions, MaxNames)

g_CHINA ==
    <<"C","H","I","N","A">>

g_USA_padded ==
    <<" "," ","U","S","A"," ">>

g_prc ==
    <<"p","r","c">>

g_France ==
    <<"F","r","a","n","c","e">>

g_blank ==
    <<" "," ">>

\* The bodies of a POST /check: one get_json() gives None for, a JSON object
\* without "guess", an object whose guess is no string, a JSON array or string
\* that contains "guess" (data["guess"] then raises TypeError), and an object
\* with a string guess.
RequestBodies ==
    {[kind |-> "not json", guess |-> <<>>],
     [kind |-> "no guess field", guess |-> <<>>],
     [kind |-> "guess is not a string", guess |-> <<>>],
     [kind |-> "json array or string holding guess", guess |-> <<>>]}
    \cup {[kind |-> "string", guess |-> g] :
              g \in {g_CHINA, g_USA_padded, g_prc, g_France, g_blank, <<>>}}

----------------------------------------------------------------------------
(* app.py: the startup cache and the two handlers.                         *)

Unavailable ==
    [status |-> 503, body |-> [error |-> "Country data unavailable. Check server logs."]]

BadRequest(message) ==
    [status |-> 400, body |-> [error |-> message]]

Raised(exception) ==
    [status |-> 500, body |-> [error |-> exception]]

get_countries(countries) ==
    IF countries = <<>> THEN Unavailable
    ELSE [status |-> 200, body |-> [countries |-> countries, count |-> Len(countries)]]

\* The handler without the test of the empty cache.
check_unguarded(body, countries, populations, names) ==
    IF body.kind \in {"not json", "no guess field"}
    THEN BadRequest("Request body must be JSON with a 'guess' field.")
    ELSE IF body.kind = "json array or string holding guess" THEN Raised("TypeError")
    ELSE IF body.kind # "string" \/ strip(body.guess) = <<>>
    THEN BadRequest("'guess' must be a non-empty string.")
    ELSE LET r == check_guess(body.guess, countries)
         IN  IF ~r.correct THEN [status |-> 200, body |-> r]
             ELSE IF "top_populations" \notin names THEN Raised("NameError")
             ELSE IF r.rank[1] > Len(populations) THEN Raised("IndexError")
             ELSE [status |-> 200,
                   body |-> [correct |-> r.correct, rank |-> r.rank,
                             normalised |-> r.normalised,
                             population |-> populations[r.rank[1]]]]

check(body, countries, populations, names) ==
    IF countries = <<>> THEN Unavailable
    ELSE IF body.kind \in {"not json", "no guess field"}
    THEN BadRequest("Request body must be JSON with a 'guess' field.")
    ELSE IF body.kind = "json array or string holding guess" THEN Raised("TypeError")
    ELSE IF body.kind # "string" \/ strip(body.guess) = <<>>
    THEN BadRequest("'guess' must be a non-empty string.")
    ELSE LET r == check_guess(body.guess, countries)
         IN  IF ~r.correct THEN [status |-> 200, body |-> r]
             ELSE IF "top_populations" \notin names THEN Raised("NameError")
             ELSE IF r.rank[1] > Len(populations) THEN Raised("IndexError")
             ELSE [status |-> 200,
                   body |-> [correct |-> r.correct, rank |-> r.rank,
                             normalised |-> r.normalised,
                             population |-> populations[r.rank[1]]]]

Init ==
    /\ phase = "boot"
    /\ bound = {}
    /\ wikitext = <<>>
    /\ top_n = TOP_N
    /\ top_countries = <<>>
    /\ top_populations = <<>>
    /\ warnings = {}
    /\ request = None
    /\ response = None
    /\ guess = <<>>
    /\ result = None
    /\ normalised = <<>>
    /\ renormalised = <<>>

\* The try block ran to its end.
StartupReady(text) ==
    /\ phase = "boot"
    /\ phase' = "serving"
    /\ wikitext' = text
    /\ top_countries' = parse_top_countries(text, top_n)
    /\ top_populations' = parse_top_populations(text, top_n)
    /\ bound' = {"_wikitext", "top_countries", "top_populations"}
    /\ warnings' = {f \in {"parse_top_countries", "parse_top_populations"} :
                        short_list_warning(
                            IF f = "parse_top_countries" THEN top_countries'
                            ELSE top_populations', top_n)}
    /\ UNCHANGED <<top_n, request, response, guess, result, normalised, renormalised>>

\* fetch_wikitext() raised; the except clause ran.
StartupFailed ==
    /\ phase = "boot"
    /\ phase' = "serving"
    /\ top_countries' = <<>>
    /\ bound' = {"top_countries"}
    /\ UNCHANGED <<wikitext, top_n, top_populations, warnings, request, response,
                   guess, result, normalised, renormalised>>

GetCountries ==
    /\ phase = "serving"
    /\ request' = Some([route |-> "GET /countries", body |-> [kind |-> "none", guess |-> <<>>]])
    /\ response' = Some(get_countries(top_countries))
    /\ UNCHANGED <<phase, bound, wikitext, top_n, top_countries, top_populations,
                   warnings, guess, result, normalised, renormalised>>

Check(body) ==
    /\ phase = "serving"
    /\ request' = Some([route |-> "POST /check", body |-> body])
    /\ response' = Some(check(body, top_countries, top_populations, bound))
    /\ UNCHANGED <<phase, bound, wikitext, top_n, top_countries, top_populations,
                   warnings, guess, result, normalised, renormalised>>

Next ==
    \/ \E text \in Documents : StartupReady(text)
    \/ StartupFailed
    \/ GetCountries
    \/ \E body \in RequestBodies : Check(body)

Spec ==
    Init /\ [][Next]_vars

----------------------------------------------------------------------------
(* The two parse functions applied to any document and target count.       *)

InitParse ==
    /\ phase = "parse"
    /\ bound = {}
    /\ wikitext \in Documents
    /\ top_n \in 0..MaxN
    /\ top_countries = <<>>
    /\ top_populations = <<>>
    /\ warnings = {}
    /\ request = None
    /\ response = None
    /\ guess = <<>>
    /\ result = None
    /\ normalised = <<>>
    /\ renormalised = <<>>

ParseCountries ==
    /\ phase = "parse"
    /\ "top_countries" \notin bound
    /\ top_countries' = parse_top_countries(wikitext, top_n)
    /\ bound' = bound \cup {"top_countries"}
    /\ warnings' = warnings \cup
                     (IF short_list_warning(top_countries', top_n)
                      THEN {"parse_top_countries"} ELSE {})
    /\ UNCHANGED <<phase, wikitext, top_n, top_populations, request, response,
                   guess, result, normalised, renormalised>>

ParsePopulations ==
    /\ phase = "parse"
    /\ "top_populations" \notin bound
    /\ top_populations' = parse_top_populations(wikitext, top_n)
    /\ bound' = bound \cup {"top_populations"}
    /\ warnings' = warnings \cup
                     (IF short_list_warning(top_populations', top_n)
                      THEN {"parse_top_populations"} ELSE {})
    /\ UNCHANGED <<phase, wikitext, top_n, top_countries, request, response,
                   guess, result, normalised, renormalised>>

NextParse ==
    \/ ParseCountries
    \/ ParsePopulations

SpecParse ==
    InitParse /\ [][NextParse]_vars

----------------------------------------------------------------------------
(* normalise_guess and check_guess applied to any guess and name list.     *)

InitGuess ==
    /\ phase = "guess"
    /\ bound = {}
    /\ wikitext = <<>>
    /\ top_n = TOP_N
    /\ top_countries \in NameLists
    /\ top_populations = <<>>
    /\ warnings = {}
    /\ request = None
    /\ response = None
    /\ guess \in Guesses
    /\ result = None
    /\ normalised = <<>>
    /\ renormalised = <<>>

CheckGuess ==
    /\ phase = "guess"
    /\ "result" \notin bound
    /\ result' = Some(check_guess(guess, top_countries))
    /\ bound' = bound \cup {"result"}
    /\ UNCHANGED <<phase, wikitext, top_n, top_countries, top_populations, warnings,
                   request, response, guess, normalised, renormalised>>

NormaliseGuess ==
    /\ phase = "guess"
    /\ "normalised" \notin bound
    /\ normalised' = normalise_guess(guess)
    /\ bound' = bound \cup {"normalised"}
    /\ UNCHANGED <<phase, wikitext, top_n, top_countries, top_populations, warnings,
                   request, response, guess, result, renormalised>>

NormaliseAgain ==
    /\ phase = "guess"
    /\ "normalised" \in bound
    /\ "renormalised" \notin bound
    /\ renormalised' = normalise_guess(normalised)
    /\ bound' = bound \cup {"renormalised"}
    /\ UNCHANGED <<phase, wikitext, top_n, top_countries, top_populations, warnings,
                   request, response, guess, result, normalised>>

NextGuess ==
    \/ CheckGuess
    \/ NormaliseGuess
    \/ NormaliseAgain

SpecGuess ==
    InitGuess /\ [][NextGuess]_vars

----------------------------------------------------------------------------
(* Properties.                                                             *)

Min(a, b) ==
    IF a <= b THEN a ELSE b

RowsOf(entries) ==
    {entries[i].row : i \in 1..Len(entries)}

\* C1: for every document and target count, parse_top_countries and
\* parse_top_populations return lists of the same length.
C1_SameLength ==
    {"top_countries", "top_populations"} \subseteq bound
        => Len(top_countries) = Len(top_populations)

\* C2: the name and the figure at the same index of the two cached lists were
\* captured from the same row fragment, and the population /check attaches
\* to a correct guess is the figure captured from the matched name's row.
C2_SameRow ==
    (phase = "serving" /\ "_wikitext" \in bound) =>
        LET names   == countries_scan(wikitext, top_n)
            figures == populations_scan(wikitext, top_n)
        IN  /\ \A i \in 1..Min(Len(names), Len(figures)) : names[i].row = figures[i].row
            /\ (/\ response # None
                /\ response[1].status = 200
                /\ request[1].route = "POST /check"
                /\ response[1].body.correct)
               => \E i \in 1..Len(figures) :
                      /\ figures[i].row = names[response[1].body.rank[1]].row
                      /\ figures[i].value = response[1].body.population

\* C3: a /check request with a non-empty string guess, made of a cache the
\* startup filled, is answered with a result and never raises.
C3_NeverRaises ==
    (/\ response # None
     /\ request[1].route = "POST /check"
     /\ request[1].body.kind = "string"
     /\ strip(request[1].body.guess) # <<>>
     /\ top_countries # <<>>)
        => response[1].status = 200

\* C4: after a failed startup the cached name list is empty, every request
\* is answered 503 whatever its body, and the cache never changes again.
StartupHasFailed ==
    phase = "serving" /\ "top_populations" \notin bound

C4_UnavailableForever ==
    /\ [](StartupHasFailed =>
            /\ top_countries = <<>>
            /\ response # None => response[1] = Unavailable)
    /\ [][phase = "serving" =>
            /\ StartupHasFailed => StartupHasFailed'
            /\ UNCHANGED <<bound, wikitext, top_countries, top_populations>>]_vars

C4_Witness ==
    /\ StartupHasFailed
    /\ request # None
    /\ request[1].route = "POST /check"
    /\ request[1].body.kind = "string"
    /\ strip(request[1].body.guess) # <<>>
    /\ response[1].status = 503

\* C5: check_guess answers correct exactly when the normalised guess is an
\* element of the list, and the rank is then the 1-based position of its
\* first occurrence.
C5_ExactFirstOccurrence ==
    result # None =>
        LET r == result[1]
            n == normalise_guess(guess)
        IN  /\ r.correct <=> \E i \in 1..Len(top_countries) : top_countries[i] = n
            /\ r.correct =>
                /\ r.rank # None
                /\ r.rank[1] \in 1..Len(top_countries)
                /\ top_countries[r.rank[1]] = n
                /\ \A j \in 1..(r.rank[1] - 1) : top_countries[j] # n

C5_Witness ==
    /\ result # None
    /\ result[1].correct
    /\ Len(top_countries) = 2
    /\ top_countries[1] = top_countries[2]
    /\ result[1].rank = Some(1)

\* C6: a guess whose normalised form is not in the cached name list is
\* answered correct = false, rank None, and no population field.
C6_UnknownGuess ==
    (/\ response # None
     /\ request[1].route = "POST /check"
     /\ request[1].body.kind = "string"
     /\ strip(request[1].body.guess) # <<>>
     /\ top_countries # <<>>
     /\ \A i \in 1..Len(top_countries) :
            top_countries[i] # normalise_guess(request[1].body.guess))
        => /\ response[1].status = 200
           /\ response[1].body.correct = FALSE
           /\ response[1].body.rank = None
           /\ "population" \notin DOMAIN response[1].body

C6_Witness ==
    /\ response # None
    /\ request[1].route = "POST /check"
    /\ request[1].body.guess = g_France
    /\ top_countries # <<>>
    /\ response[1].status = 200
    /\ ~response[1].body.correct

\* Two characters that are the same letter in different case, or equal.
CharUpper(c) ==
    IF c \in Range(LowerLetters)
    THEN UpperLetters[CHOOSE i \in DOMAIN LowerLetters : LowerLetters[i] = c]
    ELSE IF c \in {SmallSigma, FinalSigma} THEN CapitalSigma ELSE c

\* Two strings that differ only in letter case and in the whitespace around
\* them.
DifferOnlyInCaseAndPadding(a, b) ==
    LET x == strip(a)
        y == strip(b)
    IN  /\ Len(x) = Len(y)
        /\ \A i \in 1..Len(x) : CharUpper(x[i]) = CharUpper(y[i])

\* C7: two guesses that differ only in letter case and in leading or
\* trailing whitespace get identical check_guess results.
C7_CaseAndPaddingInsensitive ==
    result # None =>
        \A other \in Guesses :
            DifferOnlyInCaseAndPadding(guess, other)
                => check_guess(other, top_countries) = result[1]

\* C8: no canonical value of the alias table is a key of it, normalising a
\* normalised guess changes nothing, and "united states" resolves to itself.
C8_AliasesDoNotChain ==
    /\ \A k \in DOMAIN ALIASES : ALIASES[k] \notin DOMAIN ALIASES
    /\ "renormalised" \in bound => renormalised = normalised
    /\ normalise_guess(s_united_states) = s_united_states

C8_Witness ==
    /\ "renormalised" \in bound
    /\ lower(strip(guess)) = s_us
    /\ normalised = s_united_states
    /\ renormalised = s_united_states

\* The names of the accepted rows: the fragments that carry the flag template
\* and a piped link, in document order.
Accepted(row) ==
    flagicon_search(row) /\ \E i \in 1..Len(row) : IsLink(row[i])

AcceptedNames(text) ==
    LET rows == SelectSeq(split(text), Accepted)
    IN  [i \in 1..Len(rows) |-> lower(strip(SelectSeq(rows[i], IsLink)[1].arg))]

\* C9: parse_top_countries returns the names of the first min(N, k) accepted
\* rows in document order, never more than N, and all k of them, with the
\* warning, when k < N.
C9_FirstAcceptedRows ==
    "top_countries" \in bound /\ phase = "parse" =>
        LET all == AcceptedNames(wikitext)
            k   == Len(all)
        IN  /\ top_countries = SubSeq(all, 1, Min(top_n, k))
            /\ Len(top_countries) <= top_n
            /\ k < top_n => /\ Len(top_countries) = k
                            /\ "parse_top_countries" \in warnings
            /\ "parse_top_countries" \in warnings => k < top_n

C9_Witness ==
    /\ phase = "parse"
    /\ "top_countries" \in bound
    /\ Len(AcceptedNames(wikitext)) = 1
    /\ top_n = 2
    /\ Len(top_countries) = 1
    /\ "parse_top_countries" \in warnings

\* C10: a fragment with the flag template that lacks a parsable name or a
\* parsable figure contributes to neither list.
C10_SkippedAsAWhole ==
    (phase = "parse" /\ {"top_countries", "top_populations"} \subseteq bound) =>
        LET rows == split(wikitext)
        IN  \A i \in 1..Len(rows) :
                (/\ flagicon_search(rows[i])
                 /\ \/ link_findall(rows[i]) = <<>>
                    \/ population_search(rows[i]) = None)
                    => /\ i \notin RowsOf(countries_scan(wikitext, top_n))
                       /\ i \notin RowsOf(populations_scan(wikitext, top_n))

====
